---- MODULE Spec2Model ----
(***************************************************************************)
(* The data cleaning script streamlitapp4.py as a state machine.  One run  *)
(* of the script is one behaviour: the uploaded workbook is the input, and *)
(* every block of the script (read, validate, drop rows, duplicates,       *)
(* sample count, period, latest sample, '<' values, imputation,            *)
(* re-attachment, KS test, contamination index, download) is one action.   *)
(*                                                                         *)
(* A table is a sequence of rows; a row is [idx, c]: its index label and   *)
(* its cells, one per column name.  A cell is NaN, a number or a string (a *)
(* sequence of characters).  Measurements are decimal numbers held exactly *)
(* as integers in units of 10^-5; CI_<element> and ICI are held in         *)
(* hundredths; Year, Site Num and Sample Count are plain integers.         *)
(***************************************************************************)
EXTENDS Integers, Sequences, FiniteSets

VARIABLES
    uploaded_file,      \* the uploader's value: TRUE when a file was uploaded
    readable,           \* whether pd.read_excel can read the upload
    raw,                \* the rows of the uploaded sheet
    rawColumns,         \* the columns of the uploaded sheet
    clicked,            \* st.button("Remove Duplicates") of this run
    pc,                 \* the block of the script that runs next
    df,                 \* df: its rows
    columns,            \* df.columns
    dtypes,             \* df.dtypes: "object" or "number" for each column
    duplicates,         \* the reported number of duplicate rows
    numerical_columns,  \* numerical_columns
    df_imputed,         \* df_imputed: its rows
    df_final,           \* df_final: its rows
    final_columns,      \* df_final.columns
    ks_results,         \* the columns of the KS table
    errors,             \* the st.error messages of the run, in order
    warnings,           \* the st.warning messages of the run, in order
    download            \* the st.download_button payload, or NoDownload

vars == <<uploaded_file, readable, raw, rawColumns, clicked, pc, df, columns,
          dtypes, duplicates, numerical_columns, df_imputed, df_final,
          final_columns, ks_results, errors, warnings, download>>

-----------------------------------------------------------------------------
(* Cells and strings *)

NaN == [t |-> "nan", n |-> 0, s |-> <<>>]

Num(v) == [t |-> "num", n |-> v, s |-> <<>>]

Str(q) == [t |-> "str", n |-> 0, s |-> q]

IsNull(cell) == cell.t = "nan"

IsStr(cell) == cell.t = "str"

IsNum(cell) == cell.t = "num"

Digits == {"0", "1", "2", "3", "4", "5", "6", "7", "8", "9"}

DigitVal(ch) ==
    CASE ch = "0" -> 0 [] ch = "1" -> 1 [] ch = "2" -> 2 [] ch = "3" -> 3
      [] ch = "4" -> 4 [] ch = "5" -> 5 [] ch = "6" -> 6 [] ch = "7" -> 7
      [] ch = "8" -> 8 [] ch = "9" -> 9

LF == "\n"

RECURSIVE Pow10(_)
Pow10(k) == IF k = 0 THEN 1 ELSE 10 * Pow10(k - 1)

\* One unit of a measurement, 1.0, as the integer that holds it.
Unit == Pow10(5)

RECURSIVE IntOf(_)
IntOf(q) == IF q = <<>> THEN 0
            ELSE 10 * IntOf(SubSeq(q, 1, Len(q) - 1)) + DigitVal(q[Len(q)])

AllDigits(q) == \A i \in 1..Len(q) : q[i] \in Digits

Tail1(q) == SubSeq(q, 2, Len(q))
StartsWith(q, ch) == Len(q) >= 1 /\ q[1] = ch

Contains(q, ch) == \E i \in 1..Len(q) : q[i] = ch

\* float(text): decimal digits with at most one point; anything else raises
\* ValueError (ok = FALSE).  v is the value in units of 10^-5.
float(q) ==
    LET dots == {i \in 1..Len(q) : q[i] = "."}
    IN  IF dots = {}
        THEN [ok |-> Len(q) > 0 /\ AllDigits(q),
              v  |-> IF AllDigits(q) THEN IntOf(q) * Unit ELSE 0]
        ELSE LET i  == CHOOSE d \in dots : TRUE
                 ip == SubSeq(q, 1, i - 1)
                 fp == SubSeq(q, i + 1, Len(q))
                 k  == IF Len(fp) > 5 THEN 5 ELSE Len(fp)
                 good == /\ Cardinality(dots) = 1
                         /\ AllDigits(ip) /\ AllDigits(fp)
                         /\ Len(ip) + Len(fp) > 0
             IN  [ok |-> good,
                  v  |-> IF good
                         THEN IntOf(ip) * Unit + IntOf(SubSeq(fp, 1, k)) * Pow10(5 - k)
                         ELSE 0]

-----------------------------------------------------------------------------
(* The script's constants *)

critical_columns == <<"pH", "TC %", "TN %", "Olsen P", "AMN", "BD">>

non_predictive_columns == <<"Site No.1", "Site Num", "Year", "Sample Count", "Period">>

ks_columns == <<"MP-10", "As", "Cd", "Cr", "Cu", "Ni", "Pb", "Zn">>

\* native_means, in units of 10^-5
native_means ==
    [As |-> 620000, Cd |-> 37500, Cr |-> 2850000, Cu |-> 2300000,
     Ni |-> 1795000, Pb |-> 3300000, Zn |-> 9450000]

Elements == DOMAIN native_means

\* f"CI_{element}"
CI_(element) ==
    CASE element = "As" -> "CI_As" [] element = "Cd" -> "CI_Cd"
      [] element = "Cr" -> "CI_Cr" [] element = "Cu" -> "CI_Cu"
      [] element = "Ni" -> "CI_Ni" [] element = "Pb" -> "CI_Pb"
      [] element = "Zn" -> "CI_Zn"

ci_columns == {CI_(element) : element \in Elements}

Range(q) == {q[i] : i \in 1..Len(q)}

RawColumns == Range(critical_columns) \cup {"Site No.1", "Year", "Site Num"}
                  \cup Range(ks_columns)

AllColumns == RawColumns \cup {"Sample Count", "Period"} \cup ci_columns
                  \cup {"ICI", "ICI_Class"}

P1995_2000 == <<"1", "9", "9", "5", "-", "2", "0", "0", "0">>
P2008_2012 == <<"2", "0", "0", "8", "-", "2", "0", "1", "2">>
P2013_2017 == <<"2", "0", "1", "3", "-", "2", "0", "1", "7">>
P2018_2023 == <<"2", "0", "1", "8", "-", "2", "0", "2", "3">>
Unknown == <<"U", "n", "k", "n", "o", "w", "n">>

period_labels == <<P1995_2000, P2008_2012, P2013_2017, P2018_2023>>

LowContamination == <<"L", "o", "w", " ", "C", "o", "n", "t", "a", "m", "i", "n", "a", "t", "i", "o", "n">>
ModerateContamination == <<"M", "o", "d", "e", "r", "a", "t", "e", " ", "C", "o", "n", "t", "a", "m", "i", "n", "a", "t", "i", "o", "n">>
HighContamination == <<"H", "i", "g", "h", " ", "C", "o", "n", "t", "a", "m", "i", "n", "a", "t", "i", "o", "n">>

-----------------------------------------------------------------------------
(* The script's pure computations *)

\* re.search(r'-(\d{2})$', text): the end of the match is the end of the text,
\* or the place just before a line feed that ends the text.  The result is the
\* position of the first captured digit, 0 when there is no match.
search_suffix(q) ==
    LET e == IF Len(q) >= 1 /\ q[Len(q)] = LF THEN Len(q) - 1 ELSE Len(q)
    IN  IF e >= 3 /\ q[e - 2] = "-" /\ q[e - 1] \in Digits /\ q[e] \in Digits
        THEN e - 1 ELSE 0

\* Series.str.extract on one cell: the captured group, NaN for no match and
\* for a cell that is not a string.
str_extract(cell) ==
    IF IsStr(cell) /\ search_suffix(cell.s) > 0
    THEN Str(SubSeq(cell.s, search_suffix(cell.s), search_suffix(cell.s) + 1))
    ELSE NaN

\* A condition as it would be with an exclusive upper end.
YearBetween_exclusive(year, lo, hi) == IsNum(year) /\ year.n >= lo /\ year.n < hi

\* One condition of the list `conditions`: (Year >= lo) & (Year <= hi).  A
\* comparison with NaN is False.
YearBetween(year, lo, hi) == IsNum(year) /\ year.n >= lo /\ year.n <= hi

conditions(year) ==
    <<YearBetween(year, 1995, 2000), YearBetween(year, 2008, 2012),
      YearBetween(year, 2013, 2017), YearBetween(year, 2018, 2023)>>

\* np.select(conditions, period_labels, default='Unknown'): the first condition
\* that is true chooses the label.
np_select(conds, labels, default) ==
    IF \E i \in 1..Len(conds) : conds[i]
    THEN labels[CHOOSE i \in 1..Len(conds) :
                    conds[i] /\ \A j \in 1..(i - 1) : ~conds[j]]
    ELSE default

\* round() of the non-negative quotient num / den to an integer, ties to even.
RoundDiv(num, den) ==
    LET q == num \div den
        r == num % den
    IN  IF 2 * r < den THEN q
        ELSE IF 2 * r > den THEN q + 1
        ELSE IF q % 2 = 0 THEN q ELSE q + 1

\* (df_final[element] / mean_value).round(2) on one cell, in hundredths.
ci_ratio(cell, mean_value) ==
    IF IsNum(cell)
    THEN Num(100 * (cell.n \div mean_value)
             + RoundDiv(100 * (cell.n % mean_value), mean_value))
    ELSE NaN

RECURSIVE SumCells(_, _)
SumCells(f, S) ==
    IF S = {} THEN 0
    ELSE LET x == CHOOSE y \in S : TRUE IN f[x].n + SumCells(f, S \ {x})

\* df_final[ci_columns].mean(axis=1).round(2) on one row: the mean skips NaN,
\* and is NaN when every ratio is.
ici_of(cells) ==
    LET present == {c \in ci_columns : IsNum(cells[c])}
    IN  IF present = {} THEN NaN
        ELSE Num(RoundDiv(SumCells(cells, present), Cardinality(present)))

\* classify_ici as it would be with ici < 1 in its first test.
classify_ici_strict(ici) ==
    IF IsNum(ici) /\ ici.n < 100 THEN LowContamination
    ELSE IF IsNum(ici) /\ 100 <= ici.n /\ ici.n <= 300 THEN ModerateContamination
    ELSE HighContamination

\* classify_ici: every comparison with NaN is False.
classify_ici(ici) ==
    IF IsNum(ici) /\ ici.n <= 100 THEN LowContamination
    ELSE IF IsNum(ici) /\ 100 < ici.n /\ ici.n <= 300 THEN ModerateContamination
    ELSE HighContamination
-----------------------------------------------------------------------------
(* pandas on tables *)

\* The rows of `rows` at the positions in S, in order.
Take(rows, S) ==
    LET F[i \in 0..Len(rows)] ==
            IF i = 0 THEN <<>>
            ELSE IF i \in S THEN Append(F[i - 1], rows[i]) ELSE F[i - 1]
    IN  F[Len(rows)]

\* The dtype pandas gives a column holding these cells: object as soon as one
\* cell is a string (and for a column with no cell at all), a number dtype
\* otherwise.
infer_dtype(rows, c) ==
    IF rows = <<>> \/ \E i \in 1..Len(rows) : IsStr(rows[i].c[c])
    THEN "object" ELSE "number"

\* dropna as it would be with how='all'.
dropna_all(rows, subset) ==
    Take(rows, {i \in 1..Len(rows) : \E c \in subset : ~IsNull(rows[i].c[c])})

\* df.dropna(subset=subset, how='any')
dropna(rows, subset) ==
    Take(rows, {i \in 1..Len(rows) : \A c \in subset : ~IsNull(rows[i].c[c])})

\* df.duplicated(): a row equal, in every column, to an earlier row.
duplicated(rows) ==
    {i \in 1..Len(rows) : \E j \in 1..(i - 1) : rows[j].c = rows[i].c}

\* df.drop_duplicates()
drop_duplicates(rows) == Take(rows, (1..Len(rows)) \ duplicated(rows))

\* reset_index as it would be if the old labels were kept.
reset_index_keep(rows) == rows

\* .reset_index(drop=True): the labels become 0 .. n-1.
reset_index(rows) == [i \in 1..Len(rows) |-> [rows[i] EXCEPT !.idx = i - 1]]

\* The sort order of the Period labels as strings.
PeriodRank(label) ==
    CASE label = P1995_2000 -> 1 [] label = P2008_2012 -> 2
      [] label = P2013_2017 -> 3 [] label = P2018_2023 -> 4
      [] OTHER -> 5

GroupKey(row) == <<row.c["Site Num"].n, PeriodRank(row.c["Period"].s)>>

KeyLess(a, b) == a[1] < b[1] \/ (a[1] = b[1] /\ a[2] < b[2])

\* The keys of groupby(['Site Num', 'Period']): rows with a NaN key are left
\* out (dropna=True), and the keys come sorted (sort=True).
RECURSIVE SortKeys(_)
SortKeys(K) ==
    IF K = {} THEN <<>>
    ELSE LET m == CHOOSE a \in K : \A b \in K \ {a} : KeyLess(a, b)
         IN  <<m>> \o SortKeys(K \ {m})

group_keys(rows) ==
    SortKeys({GroupKey(rows[i]) :
                 i \in {j \in 1..Len(rows) : ~IsNull(rows[j].c["Site Num"])}})

\* idxmax as it would be if the last row holding the maximum won.
idxmax_last(rows, key) ==
    LET G == {i \in 1..Len(rows) :
                 ~IsNull(rows[i].c["Site Num"]) /\ GroupKey(rows[i]) = key}
        i == CHOOSE g \in G :
                 /\ \A h \in G : rows[h].c["Sample Count"].n <= rows[g].c["Sample Count"].n
                 /\ \A h \in G : rows[h].c["Sample Count"].n = rows[g].c["Sample Count"].n
                                    => g >= h
    IN  rows[i].idx

\* ['Sample Count'].idxmax() of one group: the label of the first row of the
\* group that holds the group's maximum.
idxmax(rows, key) ==
    LET G == {i \in 1..Len(rows) :
                 ~IsNull(rows[i].c["Site Num"]) /\ GroupKey(rows[i]) = key}
        i == CHOOSE g \in G :
                 /\ \A h \in G : rows[h].c["Sample Count"].n <= rows[g].c["Sample Count"].n
                 /\ \A h \in G : rows[h].c["Sample Count"].n = rows[g].c["Sample Count"].n
                                    => g <= h
    IN  rows[i].idx

\* df.loc[labels]
loc(rows, labels) ==
    [k \in 1..Len(labels) |->
        rows[CHOOSE i \in 1..Len(rows) : rows[i].idx = labels[k]]]

\* df.loc[df.groupby(['Site Num', 'Period'])['Sample Count'].idxmax()]
latest(rows) ==
    LET keys == group_keys(rows)
    IN  loc(rows, [k \in 1..Len(keys) |-> idxmax(rows, keys[k])])

\* The lambda of line 81 as it would be without the division by 2.
halve_less_than_whole(cell) ==
    IF IsStr(cell) /\ StartsWith(cell.s, "<")
    THEN Num(float(Tail1(cell.s)).v)
    ELSE cell

\* The lambda of line 81 on one cell.
halve_less_than(cell) ==
    IF IsStr(cell) /\ StartsWith(cell.s, "<")
    THEN Num(float(Tail1(cell.s)).v \div 2)
    ELSE cell

\* The lambda of line 81 raises ValueError on this cell.
cannot_halve(cell) ==
    IsStr(cell) /\ StartsWith(cell.s, "<") /\ ~float(Tail1(cell.s)).ok

\* df[col].astype(str).str.contains('<').any()
contains_less_than(rows, c) ==
    \E i \in 1..Len(rows) : IsStr(rows[i].c[c]) /\ Contains(rows[i].c[c].s, "<")

\* The cells of `cols` only.
Only(cells, cols) == [c \in AllColumns |-> IF c \in cols THEN cells[c] ELSE NaN]

Labels(rows) == {rows[i].idx : i \in 1..Len(rows)}

RowAt(rows, label) == rows[CHOOSE i \in 1..Len(rows) : rows[i].idx = label]

\* pd.concat([left, right], axis=1): rows are joined on their index labels; a
\* label one side lacks gives NaN in that side's columns.
concat(left, leftCols, right, rightCols) ==
    LET extra == Take(right, {i \in 1..Len(right) : right[i].idx \notin Labels(left)})
        order == [i \in 1..(Len(left) + Len(extra)) |->
                     IF i <= Len(left) THEN left[i].idx ELSE extra[i - Len(left)].idx]
    IN  [i \in 1..Len(order) |->
            [idx |-> order[i],
             c   |-> [c \in AllColumns |->
                        IF c \in leftCols /\ order[i] \in Labels(left)
                        THEN RowAt(left, order[i]).c[c]
                        ELSE IF c \in rightCols /\ c \notin leftCols
                                  /\ order[i] \in Labels(right)
                        THEN RowAt(right, order[i]).c[c]
                        ELSE NaN]]]
-----------------------------------------------------------------------------
(* The run *)

NoDownload == [columns |-> {}, rows |-> <<>>, made |-> FALSE]

NoDtypes == [c \in AllColumns |-> "none"]

inputs == <<uploaded_file, readable, raw, rawColumns, clicked>>

\* An exception raised inside the try block: the except clause of line 155
\* reports it with st.error and the script ends.
Raise(what, key) ==
    /\ errors' = Append(errors, [kind |-> "exception", what |-> what,
                                 key |-> key, cols |-> <<>>])
    /\ pc' = "failed"
    /\ UNCHANGED <<inputs, df, columns, dtypes, duplicates, numerical_columns,
                   df_imputed, df_final, final_columns, ks_results, warnings,
                   download>>

\* Lines 157-158: no file was uploaded.
NoFile ==
    /\ pc = "start"
    /\ ~uploaded_file
    /\ pc' = "idle"
    /\ UNCHANGED <<inputs, df, columns, dtypes, duplicates, numerical_columns,
                   df_imputed, df_final, final_columns, ks_results, errors,
                   warnings, download>>

\* Lines 18-29: pd.read_excel and the dataset information.
ReadExcel ==
    /\ pc = "start"
    /\ uploaded_file
    /\ IF ~readable THEN Raise("ReadError", "")
       ELSE /\ df' = raw
            /\ columns' = rawColumns
            /\ dtypes' = [c \in AllColumns |->
                            IF c \in rawColumns THEN infer_dtype(raw, c) ELSE "none"]
            /\ pc' = "validate"
            /\ UNCHANGED <<inputs, duplicates, numerical_columns, df_imputed,
                           df_final, final_columns, ks_results, errors,
                           warnings, download>>

\* Line 33 as it would be if only the first missing column were kept.
missing_critical_first(cols) ==
    LET all == SelectSeq(critical_columns, LAMBDA col : col \notin cols)
    IN  IF all = <<>> THEN <<>> ELSE <<Head(all)>>

\* Line 33
missing_critical(cols) == SelectSeq(critical_columns, LAMBDA col : col \notin cols)

\* Lines 31-36 as they would be without st.stop(): the script goes on after
\* the st.error.
Validate_no_stop ==
    /\ pc = "validate"
    /\ IF missing_critical(columns) # <<>>
       THEN errors' = Append(errors, [kind |-> "missing", what |-> "", key |-> "",
                                      cols |-> missing_critical(columns)])
       ELSE UNCHANGED errors
    /\ pc' = "dropna"
    /\ UNCHANGED <<inputs, df, columns, dtypes, duplicates, numerical_columns,
                   df_imputed, df_final, final_columns, ks_results, warnings,
                   download>>

\* Lines 31-36: st.error and st.stop when a critical column is missing.
\* st.stop raises StopException, a BaseException the except clause does not
\* catch: the script ends there.
Validate ==
    /\ pc = "validate"
    /\ IF missing_critical(columns) # <<>>
       THEN /\ errors' = Append(errors, [kind |-> "missing", what |-> "", key |-> "",
                                         cols |-> missing_critical(columns)])
            /\ pc' = "stopped"
       ELSE /\ pc' = "dropna"
            /\ UNCHANGED errors
    /\ UNCHANGED <<inputs, df, columns, dtypes, duplicates, numerical_columns,
                   df_imputed, df_final, final_columns, ks_results, warnings,
                   download>>

\* Lines 38-42: drop rows with missing critical values.  dropna raises KeyError
\* for a subset column the frame does not have.
RowFilter ==
    /\ pc = "dropna"
    /\ IF ~(Range(critical_columns) \subseteq columns)
       THEN Raise("KeyError", CHOOSE c \in Range(critical_columns) : c \notin columns)
       ELSE /\ df' = dropna(df, Range(critical_columns))
            /\ pc' = "duplicates"
            /\ UNCHANGED <<inputs, columns, dtypes, duplicates, numerical_columns,
                           df_imputed, df_final, final_columns, ks_results,
                           errors, warnings, download>>

\* Lines 44-51: the duplicate count, and drop_duplicates when the button was
\* clicked.
Duplicates ==
    /\ pc = "duplicates"
    /\ duplicates' = Cardinality(duplicated(df))
    /\ df' = IF clicked THEN drop_duplicates(df) ELSE df
    /\ pc' = "sample"
    /\ UNCHANGED <<inputs, columns, dtypes, numerical_columns, df_imputed,
                   df_final, final_columns, ks_results, errors, warnings,
                   download>>

\* Line 55, the right-hand side on one row
sample_count(row) == str_extract(row.c["Site No.1"])

\* Lines 53-57: the sample count.  .str raises AttributeError on a column of a
\* number dtype; astype(int) raises ValueError when a row has no match (NaN).
SampleCount ==
    /\ pc = "sample"
    /\ IF "Site No.1" \notin columns
       THEN /\ warnings' = Append(warnings, "Site No.1")
            /\ pc' = "period"
            /\ UNCHANGED <<inputs, df, columns, dtypes, duplicates,
                           numerical_columns, df_imputed, df_final,
                           final_columns, ks_results, errors, download>>
       ELSE IF dtypes["Site No.1"] # "object"
       THEN Raise("AttributeError", "Site No.1")
       ELSE IF \E i \in 1..Len(df) : IsNull(sample_count(df[i]))
       THEN Raise("ValueError", "Site No.1")
       ELSE /\ df' = [i \in 1..Len(df) |->
                        [df[i] EXCEPT !.c["Sample Count"] =
                                          Num(IntOf(sample_count(df[i]).s))]]
            /\ columns' = columns \cup {"Sample Count"}
            /\ dtypes' = [dtypes EXCEPT !["Sample Count"] = "number"]
            /\ pc' = "period"
            /\ UNCHANGED <<inputs, duplicates, numerical_columns, df_imputed,
                           df_final, final_columns, ks_results, errors,
                           warnings, download>>

\* Lines 59-70: the period labels.  Comparing a string Year with a number
\* raises TypeError.
AddPeriod ==
    /\ pc = "period"
    /\ IF "Year" \notin columns
       THEN /\ warnings' = Append(warnings, "Year")
            /\ pc' = "latest"
            /\ UNCHANGED <<inputs, df, columns, dtypes, duplicates,
                           numerical_columns, df_imputed, df_final,
                           final_columns, ks_results, errors, download>>
       ELSE IF \E i \in 1..Len(df) : IsStr(df[i].c["Year"])
       THEN Raise("TypeError", "Year")
       ELSE /\ df' = [i \in 1..Len(df) |->
                        [df[i] EXCEPT !.c["Period"] =
                            Str(np_select(conditions(df[i].c["Year"]),
                                          period_labels, Unknown))]]
            /\ columns' = columns \cup {"Period"}
            /\ dtypes' = [dtypes EXCEPT !["Period"] = "object"]
            /\ pc' = "latest"
            /\ UNCHANGED <<inputs, duplicates, numerical_columns, df_imputed,
                           df_final, final_columns, ks_results, errors,
                           warnings, download>>

\* Lines 72-76: the latest sample of each site and period.  Selecting
\* ['Sample Count'] from the groupby raises KeyError when the column is absent.
KeepLatest ==
    /\ pc = "latest"
    /\ IF ~({"Site Num", "Period"} \subseteq columns)
       THEN /\ warnings' = Append(warnings, "Site Num or Period")
            /\ pc' = "less_than"
            /\ UNCHANGED <<inputs, df, columns, dtypes, duplicates,
                           numerical_columns, df_imputed, df_final,
                           final_columns, ks_results, errors, download>>
       ELSE IF "Sample Count" \notin columns
       THEN Raise("KeyError", "Sample Count")
       ELSE /\ df' = reset_index(latest(df))
            /\ pc' = "less_than"
            /\ UNCHANGED <<inputs, columns, dtypes, duplicates, numerical_columns,
                           df_imputed, df_final, final_columns, ks_results,
                           errors, warnings, download>>

\* Line 79
columns_with_less_than(rows, cols) == {c \in cols : contains_less_than(rows, c)}

\* Line 81 on a whole table
replace_less_than(rows, cols) ==
    [i \in 1..Len(rows) |->
        [rows[i] EXCEPT !.c = [c \in AllColumns |->
            IF c \in columns_with_less_than(rows, cols)
            THEN halve_less_than(rows[i].c[c]) ELSE rows[i].c[c]]]]

\* Lines 78-81: the '<' values.  float() raises ValueError on text that is no
\* number.
ReplaceLessThan ==
    /\ pc = "less_than"
    /\ IF \E c \in columns_with_less_than(df, columns) :
              \E i \in 1..Len(df) : cannot_halve(df[i].c[c])
       THEN Raise("ValueError", CHOOSE c \in columns_with_less_than(df, columns) :
                                    \E i \in 1..Len(df) : cannot_halve(df[i].c[c]))
       ELSE /\ df' = replace_less_than(df, columns)
            /\ dtypes' = [c \in AllColumns |->
                            IF c \in columns_with_less_than(df, columns)
                            THEN infer_dtype(replace_less_than(df, columns), c)
                            ELSE dtypes[c]]
            /\ pc' = "impute"
            /\ UNCHANGED <<inputs, columns, duplicates, numerical_columns,
                           df_imputed, df_final, final_columns, ks_results,
                           errors, warnings, download>>
\* Lines 85-86: the columns the imputer sees.
select_numerical(cols, types) ==
    {c \in cols \ Range(non_predictive_columns) : types[c] = "number"}

\* The values the model lets the imputer estimate for a missing cell.
ImputedValues == {Unit, 3 * Unit}

\* imputer.fit_transform leaves every observed value as it is and fills the
\* missing ones; `fill` gives the estimates.  The result has a fresh RangeIndex.
fit_transform(rows, cols, fill) ==
    [i \in 1..Len(rows) |->
        [idx |-> i - 1,
         c   |-> [c \in AllColumns |->
                    IF c \notin cols THEN NaN
                    ELSE IF IsNull(rows[i].c[c]) THEN Num(fill[<<i, c>>])
                    ELSE rows[i].c[c]]]]

MissingCells(rows, cols) ==
    {p \in (1..Len(rows)) \X cols : IsNull(rows[p[1]].c[p[2]])}

cannot_impute(rows, cols) ==
    \/ rows = <<>>
    \/ cols = {}
    \/ \E c \in cols : \A i \in 1..Len(rows) : IsNull(rows[i].c[c])

\* Lines 83-90: the imputation.  fit_transform raises ValueError for a table
\* with no row or no column; it drops a column with no observed value, and the
\* DataFrame of line 90 then raises ValueError for the column count.
Impute ==
    /\ pc = "impute"
    /\ numerical_columns' = select_numerical(columns, dtypes)
    /\ LET cols == select_numerical(columns, dtypes)
       IN  IF cannot_impute(df, cols)
           THEN /\ errors' = Append(errors, [kind |-> "exception", what |-> "ValueError",
                                             key |-> "", cols |-> <<>>])
                /\ pc' = "failed"
                /\ UNCHANGED df_imputed
           ELSE /\ \E fill \in [MissingCells(df, cols) -> ImputedValues] :
                       df_imputed' = fit_transform(df, cols, fill)
                /\ pc' = "reattach"
                /\ UNCHANGED errors
    /\ UNCHANGED <<inputs, df, columns, dtypes, duplicates, df_final,
                   final_columns, ks_results, warnings, download>>

\* Lines 92-93: the non-imputed columns are put back.  df[list] raises KeyError
\* when a listed column is absent.
Reattach ==
    /\ pc = "reattach"
    /\ IF ~(Range(non_predictive_columns) \subseteq columns)
       THEN Raise("KeyError",
                  CHOOSE c \in Range(non_predictive_columns) : c \notin columns)
       ELSE /\ df_final' = concat(reset_index(df), Range(non_predictive_columns),
                                  df_imputed, numerical_columns)
            /\ final_columns' = Range(non_predictive_columns) \cup numerical_columns
            /\ pc' = "assess"
            /\ UNCHANGED <<inputs, df, columns, dtypes, duplicates,
                           numerical_columns, df_imputed, ks_results, errors,
                           warnings, download>>

\* Line 97
columns_imputed(cols, finalCols) ==
    {c \in Range(ks_columns) : c \in cols /\ c \in finalCols}

\* Lines 95-117: the histograms and the KS test.  ks_2samp raises ValueError
\* for a sample with no value.
Assess ==
    /\ pc = "assess"
    /\ IF \E c \in columns_imputed(columns, final_columns) :
              \/ \A i \in 1..Len(df) : IsNull(df[i].c[c])
              \/ \A i \in 1..Len(df_final) : IsNull(df_final[i].c[c])
       THEN Raise("ValueError", "")
       ELSE /\ ks_results' = columns_imputed(columns, final_columns)
            /\ pc' = "index"
            /\ UNCHANGED <<inputs, df, columns, dtypes, duplicates,
                           numerical_columns, df_imputed, df_final,
                           final_columns, errors, warnings, download>>

\* Lines 124-138 on one row of df_final
contamination(cells) ==
    LET withCI == [c \in AllColumns |->
                      IF \E element \in Elements : c = CI_(element)
                      THEN LET element == CHOOSE e \in Elements : c = CI_(e)
                           IN  ci_ratio(cells[element], native_means[element])
                      ELSE cells[c]]
        ici == ici_of(withCI)
    IN  [withCI EXCEPT !["ICI"] = ici, !["ICI_Class"] = Str(classify_ici(ici))]

\* Lines 119-140: the contamination index.  df_final[element] raises KeyError
\* for an element that is no column of df_final.
ContaminationIndex ==
    /\ pc = "index"
    /\ IF ~(Elements \subseteq final_columns)
       THEN Raise("KeyError", CHOOSE e \in Elements : e \notin final_columns)
       ELSE /\ df_final' = [i \in 1..Len(df_final) |->
                              [df_final[i] EXCEPT !.c = contamination(df_final[i].c)]]
            /\ final_columns' = final_columns \cup ci_columns \cup {"ICI", "ICI_Class"}
            /\ pc' = "download"
            /\ UNCHANGED <<inputs, df, columns, dtypes, duplicates,
                           numerical_columns, df_imputed, ks_results, errors,
                           warnings, download>>

\* Lines 142-154: the workbook is written (index=False) and offered for
\* download.
Download ==
    /\ pc = "download"
    /\ download' = [columns |-> final_columns,
                    rows |-> [i \in 1..Len(df_final) |-> df_final[i].c],
                    made |-> TRUE]
    /\ pc' = "done"
    /\ UNCHANGED <<inputs, df, columns, dtypes, duplicates, numerical_columns,
                   df_imputed, df_final, final_columns, ks_results, errors,
                   warnings>>
-----------------------------------------------------------------------------
(* The uploads the model runs the script on *)

MaxRows == 3

MaxMissingColumns == 2

Id(a, b) == Str(<<"A", "-", a, b>>)

OkCritical == [c \in Range(critical_columns) |-> Num(Unit)]

BaseElements == [e \in Elements |-> Num(native_means[e])]

\* One row of a sheet.
Row(critical, id, year, site, elements) ==
    [c \in AllColumns |->
        IF c \in Range(critical_columns) THEN critical[c]
        ELSE IF c = "Site No.1" THEN id
        ELSE IF c = "Year" THEN year
        ELSE IF c = "Site Num" THEN site
        ELSE IF c = "MP-10" THEN Num(Unit)
        ELSE IF c \in Elements THEN elements[c]
        ELSE NaN]

Plain(id, year, site) == Row(OkCritical, id, Num(year), Num(site), BaseElements)

\* A sheet: its rows get the labels 0 .. n-1, and hold the sheet's columns only.
Sheet(cells, cols) ==
    [i \in 1..Len(cells) |-> [idx |-> i - 1, c |-> Only(cells[i], cols)]]

Upload(cells, cols, click) ==
    [uploaded_file |-> TRUE, readable |-> TRUE, raw |-> Sheet(cells, cols),
     rawColumns |-> cols, clicked |-> click]

RECURSIVE Tuples(_, _)
Tuples(S, n) ==
    IF n = 0 THEN {<<>>}
    ELSE {Append(q, x) : q \in Tuples(S, n - 1), x \in S}

UpTo(S, n) == UNION {Tuples(S, k) : k \in 0..n}

\* Sheets that lack up to MaxMissingColumns columns.
ColumnUploads ==
    {Upload(<<Plain(Id("0", "1"), 2000, 1), Plain(Id("0", "2"), 2010, 2)>>,
            RawColumns \ missing, FALSE) :
        missing \in {m \in SUBSET RawColumns : Cardinality(m) <= MaxMissingColumns}}

\* Rows that differ in sample count, year, site and missing critical values.
SampleRows ==
    {Plain(Id("0", "2"), 1999, 1), Plain(Id("0", "2"), 2000, 1),
     Plain(Id("0", "1"), 2000, 1), Plain(Id("0", "2"), 2001, 1),
     Plain(Id("0", "1"), 2000, 2),
     Row(OkCritical, Id("0", "1"), Num(2000), NaN, BaseElements),
     Row([OkCritical EXCEPT !["pH"] = NaN], Id("0", "2"), Num(2000), Num(1),
         BaseElements)}

RowUploads ==
    {Upload(cells, RawColumns, click) :
        cells \in UpTo(SampleRows, MaxRows), click \in BOOLEAN}

\* Site identifiers: matching, not matching, ending in a line feed, missing.
Identifiers ==
    {Id("0", "7"), Id("1", "2"), Str(<<"A", "-", "7">>), Str(<<"A", "-", "0", "1", "2">>),
     Str(<<"A", "0", "7">>), Str(<<"A", "-", "0", "7", LF>>),
     Str(<<"A", "-", "0", "7", "b">>), NaN}

IdentifierRows ==
    {Row(critical, id, Num(2000), Num(1), BaseElements) :
        critical \in {OkCritical, [OkCritical EXCEPT !["TC %"] = NaN]},
        id \in Identifiers}

IdentifierUploads ==
    {Upload(cells, RawColumns, FALSE) : cells \in UpTo(IdentifierRows, 2)}

Years == {1994, 1995, 2000, 2001, 2007, 2008, 2012, 2013, 2017, 2018, 2023, 2024}

YearUploads ==
    {Upload(<<Row(OkCritical, Id("0", "1"), year, Num(1), BaseElements)>>,
            RawColumns, FALSE) :
        year \in {Num(y) : y \in Years} \cup {NaN}}

\* Measurement cells: numbers, censored values, other text, missing.
Measured ==
    {Num(Unit \div 2), NaN, Str(<<"<", "0", ".", "2">>), Str(<<"<", "0", ".", "0", "5">>),
     Str(<<"<", "3">>), Str(<<"0", ".", "5">>), Str(<<"a", "<", "b">>),
     Str(<<"<", "a">>), Str(<<"<">>)}

MeasuredRows ==
    {Row([critical EXCEPT !["AMN"] = amn], Id("0", "1"), Num(2000), Num(1),
         [BaseElements EXCEPT !["Cd"] = cd]) :
        critical \in {OkCritical, [OkCritical EXCEPT !["pH"] = NaN]},
        amn \in {Num(Unit), Str(<<"<", "0", ".", "2">>)},
        cd \in Measured}

MeasuredUploads ==
    {Upload(<<a, Row(OkCritical, Id("0", "1"), Num(2000), Num(2),
                     [BaseElements EXCEPT !["Cd"] = cd])>>, RawColumns, FALSE) :
        a \in MeasuredRows, cd \in Measured}

\* Element values at the baseline, at 3 times and at 3.01 times the baseline.
ElementUploads ==
    {Upload(<<Row(OkCritical, Id("0", "1"), Num(2000), Num(1),
                  [e \in Elements |-> Num((native_means[e] \div 100) * k[e])])>>,
            RawColumns, FALSE) :
        k \in [Elements -> {100, 301}] \cup [Elements -> {300, 301}]}

OtherUploads ==
    {[uploaded_file |-> FALSE, readable |-> FALSE, raw |-> <<>>, rawColumns |-> {},
      clicked |-> FALSE],
     [uploaded_file |-> TRUE, readable |-> FALSE, raw |-> <<>>, rawColumns |-> {},
      clicked |-> FALSE]}

Uploads ==
    ColumnUploads \cup RowUploads \cup IdentifierUploads \cup YearUploads
        \cup MeasuredUploads \cup ElementUploads \cup OtherUploads

Init ==
    /\ \E u \in Uploads :
          /\ uploaded_file = u.uploaded_file
          /\ readable = u.readable
          /\ raw = u.raw
          /\ rawColumns = u.rawColumns
          /\ clicked = u.clicked
    /\ pc = "start"
    /\ df = <<>>
    /\ columns = {}
    /\ dtypes = NoDtypes
    /\ duplicates = 0
    /\ numerical_columns = {}
    /\ df_imputed = <<>>
    /\ df_final = <<>>
    /\ final_columns = {}
    /\ ks_results = {}
    /\ errors = <<>>
    /\ warnings = <<>>
    /\ download = NoDownload

Next ==
    \/ NoFile
    \/ ReadExcel
    \/ Validate
    \/ RowFilter
    \/ Duplicates
    \/ SampleCount
    \/ AddPeriod
    \/ KeepLatest
    \/ ReplaceLessThan
    \/ Impute
    \/ Reattach
    \/ Assess
    \/ ContaminationIndex
    \/ Download

Spec == Init /\ [][Next]_vars
-----------------------------------------------------------------------------
(* Properties *)

HasCritical(cells) == \A c \in Range(critical_columns) : ~IsNull(cells[c])

Critical(rows) == \A i \in 1..Len(rows) : HasCritical(rows[i].c)

SameGroup(a, b) ==
    /\ ~IsNull(a.c["Site Num"])
    /\ a.c["Site Num"] = b.c["Site Num"]
    /\ a.c["Period"] = b.c["Period"]

Count(row) == row.c["Sample Count"].n

\* C1: when the frame has 'Site Num' and 'Period', the step that keeps the
\* latest samples leaves, for every group of rows with the same Site Num and
\* Period, exactly one row; it is a row of that group with the group's largest
\* Sample Count, and among the rows with that count the first in the input.
C1_OneRowPerGroupFirstMaximum ==
    [][(pc = "latest" /\ pc' = "less_than" /\ {"Site Num", "Period"} \subseteq columns)
        => \A i \in 1..Len(df) :
              ~IsNull(df[i].c["Site Num"]) =>
                 LET G    == {j \in 1..Len(df) : SameGroup(df[i], df[j])}
                     hits == {k \in 1..Len(df') : SameGroup(df[i], df'[k])}
                 IN  /\ Cardinality(hits) = 1
                     /\ \A k \in hits : \E j \in G :
                           /\ df'[k].c = df[j].c
                           /\ \A h \in G : Count(df[h]) <= Count(df[j])
                           /\ \A h \in G : h < j => Count(df[h]) < Count(df[j])]_vars

\* C1 witness: three rows of one site and period were selected from; the first
\* two tie on the largest sample count and differ in Year, and the first is kept.
C1_Witness ==
    /\ pc = "less_than"
    /\ Len(raw) = 3 /\ Critical(raw) /\ ~clicked
    /\ raw[1].c = Plain(Id("0", "2"), 1999, 1)
    /\ raw[2].c = Plain(Id("0", "2"), 2000, 1)
    /\ raw[3].c = Plain(Id("0", "1"), 2000, 1)
    /\ Len(df) = 1
    /\ df[1].c["Year"] = Num(1999) /\ df[1].c["Sample Count"] = Num(2)

\* C2: when a critical column is absent from the sheet, the run ends at the
\* validation with one error that lists exactly the absent critical columns,
\* and no later block has run.
C2_MissingCriticalStops ==
    /\ (uploaded_file /\ readable /\ ~(Range(critical_columns) \subseteq rawColumns)
            /\ pc \notin {"start", "validate"})
        => /\ pc = "stopped"
           /\ Len(errors) = 1
           /\ errors[1].kind = "missing"
           /\ Range(errors[1].cols) = Range(critical_columns) \ rawColumns
           /\ Len(errors[1].cols) = Cardinality(Range(critical_columns) \ rawColumns)
           /\ df = raw /\ columns = rawColumns /\ warnings = <<>>
           /\ numerical_columns = {} /\ df_imputed = <<>> /\ df_final = <<>>
           /\ ks_results = {} /\ ~download.made
    /\ pc = "stopped" => ~(Range(critical_columns) \subseteq rawColumns)

\* C2 witness: the run stopped for a sheet without 'pH' and 'BD'.
C2_Witness ==
    /\ pc = "stopped"
    /\ Range(critical_columns) \ rawColumns = {"pH", "BD"}

\* C3: the step that drops rows leaves no row with a null critical value,
\* keeps every row whose critical values are all there, in order, and
\* dropping again removes nothing.
C3_RowFilter ==
    [][(pc = "dropna" /\ pc' = "duplicates")
        => LET kept == {i \in 1..Len(df) : HasCritical(df[i].c)}
           IN  /\ Critical(df')
               /\ Len(df') = Cardinality(kept)
               /\ \A i \in kept : \E k \in 1..Len(df') : df'[k] = df[i]
               /\ \A k \in 1..(Len(df') - 1) : df'[k].idx < df'[k + 1].idx
               /\ dropna(df', Range(critical_columns)) = df']_vars

\* C3 witness: the filter removed one row of three.
C3_Witness ==
    /\ pc = "duplicates"
    /\ Len(raw) = 3 /\ Len(df) = 2
    /\ ~HasCritical(raw[2].c)

Nearest(r, num, den) == 2 * (num - r * den) <= den /\ 2 * (r * den - num) <= den

\* C4: in the table that is offered for download, each CI_<element> is the
\* element's value over its baseline to the nearest hundredth, ICI is the mean
\* of the seven ratios to the nearest hundredth, and the class is Low exactly
\* for ICI <= 1, Moderate exactly for 1 < ICI <= 3 and High exactly for ICI > 3;
\* values at the baselines give ratios 1.00 and Low, values at 3.01 times the
\* baselines give High.
C4_ContaminationIndex ==
    pc \in {"download", "done"} =>
        \A i \in 1..Len(df_final) :
            LET row == df_final[i].c
                ici == row["ICI"]
                cls == row["ICI_Class"].s
            IN  /\ \A e \in Elements :
                      /\ IsNum(row[CI_(e)])
                      /\ Nearest(row[CI_(e)].n - 100 * (row[e].n \div native_means[e]),
                                 100 * (row[e].n % native_means[e]), native_means[e])
                /\ IsNum(ici)
                /\ Nearest(ici.n, SumCells(row, ci_columns), 7)
                /\ (cls = LowContamination) <=> (ici.n <= 100)
                /\ (cls = ModerateContamination) <=> (100 < ici.n /\ ici.n <= 300)
                /\ (cls = HighContamination) <=> (ici.n > 300)
                /\ (\A e \in Elements : row[e].n = native_means[e])
                      => /\ \A e \in Elements : row[CI_(e)].n = 100
                         /\ cls = LowContamination
                /\ (\A e \in Elements : row[e].n = 301 * (native_means[e] \div 100))
                      => cls = HighContamination

\* C4 witness: a finished run whose row has every element at 3.01 times its
\* baseline.
C4_Witness ==
    /\ pc = "done"
    /\ Len(df_final) = 1
    /\ \A e \in Elements : df_final[1].c[e].n = 301 * (native_means[e] \div 100)
    /\ df_final[1].c["ICI"] = Num(301)
Censored(cell) == IsStr(cell) /\ StartsWith(cell.s, "<")

\* C5: the step that replaces '<' values turns every string that begins with
\* '<' into half of the number after the marker ('<0.2' into 0.1) and leaves
\* every other cell, of every column, as it was.
C5_LessThanHalved ==
    [][(pc = "less_than" /\ pc' = "impute")
        => /\ Len(df') = Len(df)
           /\ \A i \in 1..Len(df) : \A c \in columns :
                 IF Censored(df[i].c[c])
                 THEN /\ IsNum(df'[i].c[c])
                      /\ 2 * df'[i].c[c].n = float(Tail1(df[i].c[c].s)).v
                      /\ df[i].c[c].s = <<"<", "0", ".", "2">>
                            => 10 * df'[i].c[c].n = Unit
                 ELSE df'[i].c[c] = df[i].c[c]]_vars

\* C5 witness: '<0.2' in Cd became 0.1 while text with '<' inside, in the same
\* column, stayed.
C5_Witness ==
    /\ pc = "impute"
    /\ Len(raw) = 2 /\ Len(df) = 2
    /\ raw[1].c["Cd"] = Str(<<"<", "0", ".", "2">>)
    /\ raw[2].c["Cd"] = Str(<<"a", "<", "b">>)
    /\ df[1].c["Cd"] = Num(Unit \div 10)
    /\ df[2].c["Cd"] = Str(<<"a", "<", "b">>)

\* C6: a row with a Year has the Period of the range its Year lies in, ends
\* included, and 'Unknown' when it lies in none: 2000 gives '1995-2000', 2001
\* gives 'Unknown'.
C6_PeriodOfYear ==
    {"Year", "Period"} \subseteq columns =>
        \A i \in 1..Len(df) :
            LET y == df[i].c["Year"]
                p == df[i].c["Period"].s
            IN  IsNum(y) =>
                  /\ (p = P1995_2000) <=> (1995 <= y.n /\ y.n <= 2000)
                  /\ (p = P2008_2012) <=> (2008 <= y.n /\ y.n <= 2012)
                  /\ (p = P2013_2017) <=> (2013 <= y.n /\ y.n <= 2017)
                  /\ (p = P2018_2023) <=> (2018 <= y.n /\ y.n <= 2023)
                  /\ (p = Unknown) <=> ~(\/ (1995 <= y.n /\ y.n <= 2000)
                                         \/ (2008 <= y.n /\ y.n <= 2012)
                                         \/ (2013 <= y.n /\ y.n <= 2017)
                                         \/ (2018 <= y.n /\ y.n <= 2023))
                  /\ y.n = 2000 => p = P1995_2000
                  /\ y.n = 2001 => p = Unknown

\* C6 witness: a row of Year 2001 was labelled 'Unknown'.
C6_Witness ==
    /\ pc = "latest"
    /\ Len(df) = 1
    /\ df[1].c["Year"] = Num(2001)
    /\ df[1].c["Period"] = Str(Unknown)

NonPredictive(rows) ==
    [i \in 1..Len(rows) |-> Only(rows[i].c, Range(non_predictive_columns))]

\* C7: the selection never adds a row; from the selection on, the rows of df
\* keep their non-predictive values and their order; the re-attached table has
\* one row for each row of df, in order, with that row's non-predictive values
\* and, in the imputed columns, that row's observed values; the scoring and
\* the download keep them.
C7_RowsStayAligned ==
    [][/\ pc = "latest" => Len(df') <= Len(df)
       /\ pc \in {"less_than", "impute", "reattach", "assess", "index", "download"}
             => NonPredictive(df') = NonPredictive(df)
       /\ (pc = "reattach" /\ pc' = "assess")
             => /\ Len(df_final') = Len(df)
                /\ NonPredictive(df_final') = NonPredictive(df)
                /\ \A i \in 1..Len(df) : \A c \in numerical_columns :
                      ~IsNull(df[i].c[c]) => df_final'[i].c[c] = df[i].c[c]
       /\ (pc = "index" /\ pc' = "download")
             => /\ Len(df_final') = Len(df_final)
                /\ \A i \in 1..Len(df_final) :
                      Only(df_final'[i].c, final_columns) = Only(df_final[i].c, final_columns)
       /\ pc = "download"
             => /\ Len(download'.rows) = Len(df)
                /\ \A i \in 1..Len(df) :
                      /\ Only(download'.rows[i], Range(non_predictive_columns))
                             = Only(df[i].c, Range(non_predictive_columns))
                      /\ \A c \in numerical_columns :
                            ~IsNull(df[i].c[c]) => download'.rows[i][c] = df[i].c[c]]_vars

\* C7 witness: a finished run in which the row filter removed the first of
\* three rows and the selection put the other two in the order of their sites.
C7_Witness ==
    /\ pc = "done"
    /\ Len(raw) = 3
    /\ ~HasCritical(raw[1].c)
    /\ raw[2].c["Site Num"] = Num(2) /\ raw[2].c["Year"] = Num(2000)
    /\ raw[3].c["Site Num"] = Num(1) /\ raw[3].c["Year"] = Num(2001)
    /\ Len(download.rows) = 2
    /\ download.rows[1]["Site Num"] = Num(1) /\ download.rows[1]["Year"] = Num(2001)
    /\ download.rows[2]["Site Num"] = Num(2) /\ download.rows[2]["Year"] = Num(2000)

Ended == {"failed", "stopped"}

\* C8: a run that failed has surfaced exactly one error and offers no
\* download; nothing runs after the failure; a download is offered only by a
\* run that reached its end without an error.
C8_FailureEndsTheRun ==
    [][/\ pc \notin Ended
       /\ errors = <<>>
       /\ pc' \in Ended <=> Len(errors') = 1
       /\ pc' \in Ended => (~download'.made /\ download' = download)
       /\ download'.made => (pc' = "done" /\ errors' = <<>>)
       /\ Len(errors') <= 1]_vars

\* C8 witness: the run failed after the imputation had been done.
C8_Witness ==
    /\ pc = "failed"
    /\ df_imputed # <<>>
    /\ Len(errors) = 1
    /\ ~download.made

Optional == {"Site No.1", "Year", "Site Num"}

\* C9: for a sheet that has every critical column and lacks optional columns,
\* the absence of an optional column, or of the column derived from it, never
\* ends the run with an error.
C9_OptionalColumnsOnlyWarn ==
    (Range(critical_columns) \subseteq rawColumns /\ ~(Optional \subseteq rawColumns))
        => \A k \in 1..Len(errors) :
              ~(errors[k].what = "KeyError"
                  /\ errors[k].key \in Range(non_predictive_columns))

EndsInDashTwoDigits(cell) ==
    /\ IsStr(cell)
    /\ Len(cell.s) >= 3
    /\ cell.s[Len(cell.s) - 2] = "-"
    /\ cell.s[Len(cell.s) - 1] \in Digits
    /\ cell.s[Len(cell.s)] \in Digits

TwoDigits(cell) ==
    10 * DigitVal(cell.s[Len(cell.s) - 1]) + DigitVal(cell.s[Len(cell.s)])

\* C10: with 'Site No.1' in the sheet, a surviving row whose identifier ends in
\* a dash and two digits gets those digits as its Sample Count; a surviving row
\* whose identifier does not end so, or is missing, ends the run with an error
\* and without download; rows the row filter removed never cause that error.
C10_SampleCountOrAbort ==
    ("Site No.1" \in rawColumns /\ Range(critical_columns) \subseteq rawColumns)
        => LET survivors == {i \in 1..Len(raw) : HasCritical(raw[i].c)}
               bad == {i \in survivors : ~EndsInDashTwoDigits(raw[i].c["Site No.1"])}
           IN  /\ "Sample Count" \in columns
                     => \A i \in 1..Len(df) :
                           EndsInDashTwoDigits(df[i].c["Site No.1"])
                              => Count(df[i]) = TwoDigits(df[i].c["Site No.1"])
               /\ (bad # {} /\ pc \notin {"start", "validate", "dropna", "duplicates", "sample"})
                     => (pc = "failed" /\ Len(errors) = 1 /\ ~download.made)
               /\ (pc = "failed" /\ errors[1].key = "Site No.1") => bad # {}
====
